---- MODULE Spec2Model ----
(***************************************************************************)
(* Model of docarray/array/array/array.py: the DocArray container, its     *)
(* per-element validation, the list primitives delegated to the data       *)
(* attribute, and the column accessors.                                    *)
(***************************************************************************)
EXTENDS Integers, Sequences, FiniteSets, TLC

VARIABLES
    docType,      \* DocArray._document_type of the container's class
    constructed,  \* FALSE until DocArray.__init__ has returned normally
    data,         \* DocArray.data, the list of stored values
    heap,         \* the objects of the program: record id -> class and attributes
    last,         \* the latest call: its name, the error it raised, its return value,
                  \* the field name it was given
    gen,          \* a generator created by _validate_docs, stepped by its consumer
    stores        \* the list objects: the class-level default DocArray.data, which
                  \* list the data attribute of the container is bound to, and
                  \* the same for a second container of the class

vars == <<docType, constructed, data, heap, last, gen, stores>>

----------------------------------------------------------------------------
\* Bounds of the model

MaxLen == 3      \* longest store
MaxDocs == 2     \* longest iterable handed to __init__, extend and _validate_docs
MaxFresh == 2    \* records keyword-constructed from mappings
MaxVals == 3     \* longest value list handed to _set_data_column

----------------------------------------------------------------------------
\* The values of the program

None == "None"
ABSENT == "ABSENT"                      \* the object has no such attribute

PreRecs == {"d1", "d2", "n1", "n2"}      \* records the caller already holds
FreshPool == <<"f1", "f2", "f3", "f4", "f5">>
FreshIds == {FreshPool[i] : i \in 1..MaxFresh}
RecIds == PreRecs \cup FreshIds
RawVals == {"str"}                      \* a value that is neither record nor mapping
Dicts == {"m_doc", "m_bad"}              \* mappings of field name -> value
Scalars == {"a", "b"}
AllInputs == {"d1", "d2", "n1", "str", "m_doc", "m_bad"}

FieldNames == {"title", "inner", "opt", "val"}
NoAttrs == [f \in FieldNames |-> ABSENT]

\* the entries of each mapping
DictEntries(m) ==
    IF m = "m_doc" THEN [NoAttrs EXCEPT !["title"] = "a", !["inner"] = "n1"]
    ELSE [NoAttrs EXCEPT !["title"] = "b"]

IsDict(v) == v \in Dicts

\* class hierarchy: each class and its direct base
Base(t) ==
    CASE t = "SubDoc" -> "Doc"
      [] t = "Doc" -> "BaseDoc"
      [] t = "Inner" -> "BaseDoc"
      [] t = "AnyDoc" -> "BaseDoc"
      [] OTHER -> "object"

IsSubclass(t, u) ==
    \/ t = u
    \/ Base(t) = u
    \/ Base(Base(t)) = u

\* isinstance(v, t) for a value v in heap h
IsInstance(h, v, t) ==
    /\ v \in RecIds
    /\ h[v].type # "NULL"
    /\ IsSubclass(h[v].type, t)

\* the declared type of a field of a record class
FieldType(t, f) ==
    IF IsSubclass(t, "Doc") THEN
        CASE f = "title" -> "str"
          [] f = "inner" -> "Inner"
          [] f = "opt" -> "Optional[Inner]"
          [] OTHER -> ABSENT
    ELSE IF t = "Inner" THEN
        CASE f = "val" -> "str"
          [] OTHER -> ABSENT
    ELSE ABSENT

Fields(t) == {f \in FieldNames : FieldType(t, f) # ABSENT}

is_union_type(ft) == ft = "Optional[Inner]"
IsRecordClass(ft) == IsSubclass(ft, "BaseDoc")

\* a value conforms to a declared field type
Conforms(h, ft, v) ==
    CASE ft = "str" -> v \in Scalars
      [] ft = "Inner" -> IsInstance(h, v, "Inner")
      [] ft = "Optional[Inner]" -> v = None \/ IsInstance(h, v, "Inner")
      [] OTHER -> FALSE

\* the value of a field left out of the keyword arguments
FieldDefault(ft) == IF ft = "Optional[Inner]" THEN None ELSE ABSENT

NullObj == [type |-> "NULL", attrs |-> NoAttrs]

Heap0 ==
    [r \in RecIds |->
        CASE r = "d1" -> [type |-> "Doc",
                          attrs |-> [NoAttrs EXCEPT !["title"] = "a", !["inner"] = "n1", !["opt"] = None]]
          [] r = "d2" -> [type |-> "SubDoc",
                          attrs |-> [NoAttrs EXCEPT !["title"] = "b", !["inner"] = "n2", !["opt"] = "n1"]]
          [] r = "n1" -> [type |-> "Inner", attrs |-> [NoAttrs EXCEPT !["val"] = "a"]]
          [] r = "n2" -> [type |-> "Inner", attrs |-> [NoAttrs EXCEPT !["val"] = "b"]]
          [] OTHER -> NullObj]

FreeIds(h) == {r \in FreshIds : h[r].type = "NULL"}
NextFresh(h) == FreshPool[CHOOSE i \in 1..MaxFresh :
                    /\ FreshPool[i] \in FreeIds(h)
                    /\ \A j \in 1..(i-1) : FreshPool[j] \notin FreeIds(h)]

RECURSIVE NumDicts(_)
NumDicts(docs) ==
    IF docs = <<>> THEN 0
    ELSE (IF IsDict(Head(docs)) THEN 1 ELSE 0) + NumDicts(Tail(docs))

\* enough unused object ids for every mapping of docs
CanAlloc(h, docs) == NumDicts(docs) <= Cardinality(FreeIds(h))

Result(e, v, h) == [err |-> e, val |-> v, heap |-> h]

----------------------------------------------------------------------------
\* self._document_type(**doc): keyword construction of a record

Construct(t, h, m) ==
    LET kw == DictEntries(m)
        attrs == [f \in FieldNames |->
                    IF t = "AnyDoc" THEN kw[f]
                    ELSE IF FieldType(t, f) = ABSENT THEN ABSENT
                    ELSE IF kw[f] = ABSENT THEN FieldDefault(FieldType(t, f))
                    ELSE kw[f]]
        ok == \/ t = "AnyDoc"
              \/ \A f \in Fields(t) : Conforms(h, FieldType(t, f), attrs[f])
        id == NextFresh(h)
    IN  IF ok
        THEN Result("none", id, [h EXCEPT ![id] = [type |-> t, attrs |-> attrs]])
        ELSE Result("ValidationError", m, h)

\* _validate_one_doc without the isinstance test
_validate_one_doc_unchecked(t, h, doc) ==
    IF IsDict(doc) THEN Construct(t, h, doc)
    ELSE Result("none", doc, h)

\* _validate_one_doc testing for the unconstrained marker before the mapping
_validate_one_doc_passthrough(t, h, doc) ==
    IF IsSubclass(t, "AnyDoc") THEN Result("none", doc, h)
    ELSE IF IsDict(doc) THEN Construct(t, h, doc)
    ELSE IF ~IsInstance(h, doc, t) THEN Result("ValueError", doc, h)
    ELSE Result("none", doc, h)

\* _validate_one_doc returning a copy of a record it accepts (the first time,
\* while no other object was created)
_validate_one_doc_copying(t, h, doc) ==
    LET id == NextFresh(h)
    IN  IF IsDict(doc) THEN Construct(t, h, doc)
        ELSE IF ~IsSubclass(t, "AnyDoc") /\ ~IsInstance(h, doc, t)
             THEN Result("ValueError", doc, h)
        ELSE IF doc \in RecIds /\ Cardinality(FreeIds(h)) = MaxFresh
             THEN Result("none", id, [h EXCEPT ![id] = h[doc]])
        ELSE Result("none", doc, h)

\* DocArray._validate_one_doc
_validate_one_doc(t, h, doc) ==
    IF IsDict(doc) THEN Construct(t, h, doc)
    ELSE IF ~IsSubclass(t, "AnyDoc") /\ ~IsInstance(h, doc, t)
         THEN Result("ValueError", doc, h)
    ELSE Result("none", doc, h)

\* One resumption of the generator of DocArray._validate_docs over docs, of
\* which `pos` elements were consumed: the next element is validated and
\* yielded, or the error of its validation is raised, or the input is
\* exhausted.
GenStep(t, h, docs, pos) ==
    IF pos >= Len(docs) THEN Result("StopIteration", None, h)
    ELSE _validate_one_doc(t, h, docs[pos + 1])

\* list.extend(lst, <generator of _validate_docs(docs)>): every yielded value
\* is appended as it is produced; an error raised by the generator leaves
\* what was appended so far.
RECURSIVE ListExtendGen(_, _, _, _, _)
ListExtendGen(t, h, lst, docs, pos) ==
    LET r == GenStep(t, h, docs, pos)
    IN  IF r.err = "StopIteration" THEN Result("none", lst, h)
        ELSE IF r.err # "none" THEN Result(r.err, lst, r.heap)
        ELSE ListExtendGen(t, r.heap, Append(lst, r.val), docs, pos + 1)

\* list(<generator of _validate_docs(docs)>)
ListOfGen(t, h, docs) == ListExtendGen(t, h, <<>>, docs, 0)

----------------------------------------------------------------------------
\* The list primitives

\* list.insert: the index is clamped into 0..len
ClampIndex(i, n) ==
    LET j == IF i < 0 THEN i + n ELSE i
    IN  IF j < 0 THEN 0 ELSE IF j > n THEN n ELSE j

\* list.insert placing the value one position late
ListInsertLate(lst, i, v) ==
    LET k == ClampIndex(i + 1, Len(lst))
    IN  SubSeq(lst, 1, k) \o <<v>> \o SubSeq(lst, k + 1, Len(lst))

ListInsert(lst, i, v) ==
    LET k == ClampIndex(i, Len(lst))
    IN  SubSeq(lst, 1, k) \o <<v>> \o SubSeq(lst, k + 1, Len(lst))

\* list.pop: a negative index counts from the end
PopIndex(i, n) == IF i < 0 THEN i + n ELSE i

ListDelete(lst, k) == SubSeq(lst, 1, k) \o SubSeq(lst, k + 2, Len(lst))

\* list.remove: position (from 0) of the first element equal to v, -1 if none
FirstIndex(lst, v) ==
    IF \E k \in 1..Len(lst) : lst[k] = v
    THEN (CHOOSE k \in 1..Len(lst) : lst[k] = v /\ \A j \in 1..(k-1) : lst[j] # v) - 1
    ELSE -1

ListReverse(lst) == [k \in 1..Len(lst) |-> lst[Len(lst) + 1 - k]]

Rank(s) == IF s = "a" THEN 1 ELSE 2

\* the key `lambda d: d.<field>` of a stored value
HasAttr(h, v, f) == v \in RecIds /\ h[v].attrs[f] # ABSENT

\* InsertSorted with the comparison turned round
RECURSIVE InsertSortedDesc(_, _, _, _)
InsertSortedDesc(h, f, sorted, v) ==
    IF sorted = <<>> THEN <<v>>
    ELSE IF Rank(h[v].attrs[f]) > Rank(h[Head(sorted)].attrs[f])
         THEN <<v>> \o sorted
    ELSE <<Head(sorted)>> \o InsertSortedDesc(h, f, Tail(sorted), v)

RECURSIVE InsertSorted(_, _, _, _)
InsertSorted(h, f, sorted, v) ==
    IF sorted = <<>> THEN <<v>>
    ELSE IF Rank(h[v].attrs[f]) < Rank(h[Head(sorted)].attrs[f])
         THEN <<v>> \o sorted
    ELSE <<Head(sorted)>> \o InsertSorted(h, f, Tail(sorted), v)

\* list.sort(key=lambda d: d.<field>): stable
RECURSIVE StableSort(_, _, _, _)
StableSort(h, f, lst, k) ==
    IF k = 0 THEN <<>>
    ELSE InsertSorted(h, f, StableSort(h, f, lst, k - 1), lst[k])

\* every order a list of the same elements can be left in
Reorderings(lst) ==
    {[k \in 1..Len(lst) |-> lst[p[k]]] :
        p \in {q \in [1..Len(lst) -> 1..Len(lst)] : \A a, b \in 1..Len(lst) : q[a] = q[b] => a = b}}

----------------------------------------------------------------------------
\* The calls on the container

Call(op, err, ret) == [op |-> op, err |-> err, ret |-> ret, field |-> None]
ColumnCall(op, err, ret, f) == [op |-> op, err |-> err, ret |-> ret, field |-> f]

SeqsUpTo(S, n) == UNION {[1..k -> S] : k \in 0..n}
\* the values handed to a container: records of its schema, of a subtype and
\* of another schema, and mappings, when it is bound to a concrete schema;
\* a record, a plain string and a mapping when it is unconstrained
Inputs == IF docType = "AnyDoc" THEN {"d1", "str", "m_doc"}
          ELSE {"d1", "d2", "n1", "m_doc", "m_bad"}
Iterables == SeqsUpTo(Inputs, MaxDocs)
Indexes == (0 - (MaxLen + 1))..MaxLen
SortKeys == {"title", "natural"}
Removables == RecIds \cup RawVals

NoCol == None
NoGen == [state |-> "none", docs |-> <<>>, pos |-> 0, requests |-> 0,
          validated |-> <<>>, yielded |-> <<>>]

\* Before __init__ has assigned self.data, the data attribute of an instance
\* is the class-level default list (line 127)
Stores0 == [shared |-> <<>>, bound |-> "class", peer |-> <<>>, peerBound |-> "none"]

\* __init__ assigning self.data only when it is given data
BoundAfterInit_default(given, docs, err) ==
    IF err = "none" /\ given /\ Len(docs) > 0 THEN "own" ELSE "class"

\* the list self.data is bound to after __init__: the assignment of line 135
\* binds a new list, that of list(...) or of the display [], unless
\* validation raised before it
BoundAfterInit(given, docs, err) ==
    IF err = "none" THEN "own" ELSE "class"

\* a call on self.data that left it holding d: when self.data is the
\* class-level list, that list is the one mutated
Sync(d) == IF stores.bound = "class" THEN [stores EXCEPT !.shared = d] ELSE stores

\* the store of the second container
PeerData == IF stores.peerBound = "class" THEN stores.shared ELSE stores.peer

\* __init__ with the test of data inverted: `if not data`
DocArrayInit_inverted(given, docs) ==
    /\ ~constructed
    /\ CanAlloc(heap, docs)
    /\ LET r == IF given /\ Len(docs) > 0
                THEN Result("none", <<>>, heap)
                ELSE ListOfGen(docType, heap, docs)
       IN  /\ heap' = r.heap
           /\ constructed' = (r.err = "none")
           /\ data' = IF r.err = "none" THEN r.val ELSE data
           /\ last' = Call("__init__", r.err, None)
           /\ stores' = [stores EXCEPT !.bound = BoundAfterInit(given, docs, r.err)]
    /\ UNCHANGED <<docType, gen>>

\* DocArray.__init__(data): given is FALSE for data=None
DocArrayInit(given, docs) ==
    /\ ~constructed
    /\ CanAlloc(heap, docs)
    /\ LET r == IF given /\ Len(docs) > 0
                THEN ListOfGen(docType, heap, docs)
                ELSE Result("none", <<>>, heap)
       IN  /\ heap' = r.heap
           /\ constructed' = (r.err = "none")
           /\ data' = IF r.err = "none" THEN r.val ELSE data
           /\ last' = Call("__init__", r.err, None)
           /\ stores' = [stores EXCEPT !.bound = BoundAfterInit(given, docs, r.err)]
    /\ UNCHANGED <<docType, gen>>

\* append storing the new value in front
append_front(doc) ==
    /\ constructed
    /\ Len(data) < MaxLen
    /\ CanAlloc(heap, <<doc>>)
    /\ LET r == _validate_one_doc(docType, heap, doc)
       IN  /\ heap' = r.heap
           /\ data' = IF r.err = "none" THEN <<r.val>> \o data ELSE data
           /\ last' = Call("append", r.err, None)
    /\ UNCHANGED <<docType, constructed, gen>>
    /\ stores' = Sync(data')

\* DocArray.append
append(doc) ==
    /\ constructed
    /\ Len(data) < MaxLen
    /\ CanAlloc(heap, <<doc>>)
    /\ LET r == _validate_one_doc(docType, heap, doc)
       IN  /\ heap' = r.heap
           /\ data' = IF r.err = "none" THEN Append(data, r.val) ELSE data
           /\ last' = Call("append", r.err, None)
    /\ UNCHANGED <<docType, constructed, gen>>
    /\ stores' = Sync(data')

\* DocArray.extend
extend(docs) ==
    /\ constructed
    /\ Len(data) + Len(docs) <= MaxLen
    /\ CanAlloc(heap, docs)
    /\ LET r == ListExtendGen(docType, heap, data, docs, 0)
       IN  /\ heap' = r.heap
           /\ data' = r.val
           /\ last' = Call("extend", r.err, None)
    /\ UNCHANGED <<docType, constructed, gen>>
    /\ stores' = Sync(data')

\* insert storing the value it was given whatever the validation says
insert_unvalidated(i, doc) ==
    /\ constructed
    /\ Len(data) < MaxLen
    /\ CanAlloc(heap, <<doc>>)
    /\ LET r == _validate_one_doc(docType, heap, doc)
       IN  /\ heap' = r.heap
           /\ data' = ListInsert(data, i, doc)
           /\ last' = Call("insert", r.err, None)
    /\ UNCHANGED <<docType, constructed, gen>>
    /\ stores' = Sync(data')

\* DocArray.insert
insert(i, doc) ==
    /\ constructed
    /\ Len(data) < MaxLen
    /\ CanAlloc(heap, <<doc>>)
    /\ LET r == _validate_one_doc(docType, heap, doc)
       IN  /\ heap' = r.heap
           /\ data' = IF r.err = "none" THEN ListInsert(data, i, r.val) ELSE data
           /\ last' = Call("insert", r.err, None)
    /\ UNCHANGED <<docType, constructed, gen>>
    /\ stores' = Sync(data')

\* pop clamping an index out of range to the nearest element
pop_clamped(i) ==
    /\ constructed
    /\ LET k == PopIndex(i, Len(data))
           c == IF k < 0 THEN 0 ELSE IF k >= Len(data) THEN Len(data) - 1 ELSE k
       IN  IF Len(data) = 0
           THEN /\ data' = data
                /\ last' = Call("pop", "IndexError", None)
           ELSE /\ data' = ListDelete(data, c)
                /\ last' = Call("pop", "none", data[c + 1])
    /\ UNCHANGED <<docType, constructed, heap, gen>>
    /\ stores' = Sync(data')

\* DocArray.pop = list.pop of data
pop(i) ==
    /\ constructed
    /\ LET k == PopIndex(i, Len(data))
       IN  IF k < 0 \/ k >= Len(data)
           THEN /\ data' = data
                /\ last' = Call("pop", "IndexError", None)
           ELSE /\ data' = ListDelete(data, k)
                /\ last' = Call("pop", "none", data[k + 1])
    /\ UNCHANGED <<docType, constructed, heap, gen>>
    /\ stores' = Sync(data')

\* DocArray.remove = list.remove of data
remove(v) ==
    /\ constructed
    /\ v \in RecIds => heap[v].type # "NULL"
    /\ LET k == FirstIndex(data, v)
       IN  IF k < 0
           THEN /\ data' = data
                /\ last' = Call("remove", "ValueError", None)
           ELSE /\ data' = ListDelete(data, k)
                /\ last' = Call("remove", "none", None)
    /\ UNCHANGED <<docType, constructed, heap, gen>>
    /\ stores' = Sync(data')

\* DocArray.reverse = list.reverse of data
reverse ==
    /\ constructed
    /\ data' = ListReverse(data)
    /\ last' = Call("reverse", "none", None)
    /\ UNCHANGED <<docType, constructed, heap, gen>>
    /\ stores' = Sync(data')

\* DocArray.sort = list.sort of data, with key=lambda d: d.title or with the
\* natural ordering.  Records define no ordering: a comparison of two stored
\* values raises TypeError unless both are plain strings, and list.sort then
\* leaves the list in an unspecified order of the same elements.
sort(key) ==
    /\ constructed
    /\ IF key = "title"
       THEN IF \A k \in 1..Len(data) : HasAttr(heap, data[k], "title")
            THEN /\ data' = StableSort(heap, "title", data, Len(data))
                 /\ last' = Call("sort", "none", None)
            ELSE /\ data' = data
                 /\ last' = Call("sort", "AttributeError", None)
       ELSE IF Len(data) < 2 \/ \A k \in 1..Len(data) : data[k] \in RawVals
            THEN /\ data' = data
                 /\ last' = Call("sort", "none", None)
            ELSE /\ data' \in Reorderings(data)
                 /\ last' = Call("sort", "TypeError", None)
    /\ UNCHANGED <<docType, constructed, heap, gen>>
    /\ stores' = Sync(data')

----------------------------------------------------------------------------
\* The container and its list primitives

Init ==
    /\ docType \in {"AnyDoc", "Doc"}
    /\ constructed = FALSE
    /\ data = <<>>
    /\ heap = Heap0
    /\ last = Call("none", "none", None)
    /\ gen = NoGen
    /\ stores = Stores0

Next ==
    \/ \E given \in BOOLEAN, docs \in Iterables : DocArrayInit(given, docs)
    \/ \E doc \in Inputs : append(doc)
    \/ \E docs \in Iterables : extend(docs)
    \/ \E i \in Indexes, doc \in Inputs : insert(i, doc)
    \/ \E i \in Indexes : pop(i)
    \/ \E v \in Removables : remove(v)
    \/ reverse
    \/ \E key \in SortKeys : sort(key)

Spec == Init /\ [][Next]_vars

----------------------------------------------------------------------------
\* The column accessors

\* getattr(doc, field)
GetAttr(h, v, f) ==
    IF HasAttr(h, v, f) THEN Result("none", h[v].attrs[f], h)
    ELSE Result("AttributeError", None, h)

\* setattr(doc, field, value)
SetAttr(h, v, f, value) == [h EXCEPT ![v].attrs[f] = value]

\* [getattr(doc, field) for doc in self]: the values, or the first error
RECURSIVE GetAttrs(_, _, _, _)
GetAttrs(h, lst, f, k) ==
    IF k = 0 THEN Result("none", <<>>, h)
    ELSE LET r == GetAttrs(h, lst, f, k - 1)
             a == GetAttr(h, lst[k], f)
         IN  IF r.err # "none" THEN r
             ELSE IF a.err # "none" THEN a
             ELSE Result("none", Append(r.val, a.val), h)

PlainList(vals) == [kind |-> "list", type |-> ABSENT, data |-> vals]
Container(t, vals) == [kind |-> "DocArray", type |-> t, data |-> vals]

\* _get_data_column returning the plain list for every field
_get_data_column_plain(t, h, lst, f) ==
    LET vals == GetAttrs(h, lst, f, Len(lst))
    IN  [err |-> vals.err, heap |-> h,
         col |-> IF vals.err = "none" THEN PlainList(vals.val) ELSE NoCol]

\* _get_data_column looking through Optional[...] at the record class inside
_get_data_column_unwrapped(t, h, lst, f) ==
    LET declared == FieldType(t, f)
        field_type == IF declared = "Optional[Inner]" THEN "Inner" ELSE declared
        vals == GetAttrs(h, lst, f, Len(lst))
    IN  IF IsRecordClass(field_type)
        THEN IF vals.err # "none" THEN [err |-> vals.err, col |-> NoCol, heap |-> h]
             ELSE LET r == ListOfGen(field_type, h, vals.val)
                  IN  [err |-> r.err, heap |-> r.heap,
                       col |-> IF r.err = "none" THEN Container(field_type, r.val) ELSE NoCol]
        ELSE [err |-> vals.err, heap |-> h,
              col |-> IF vals.err = "none" THEN PlainList(vals.val) ELSE NoCol]

\* DocArray._get_data_column of a container of class DocArray[t] storing lst
_get_data_column(t, h, lst, f) ==
    LET field_type == FieldType(t, f)
        vals == GetAttrs(h, lst, f, Len(lst))
    IN  IF ~is_union_type(field_type) /\ IsRecordClass(field_type)
        THEN \* DocArray[field_type](getattr(doc, field) for doc in self)
             IF vals.err # "none" THEN [err |-> vals.err, col |-> NoCol, heap |-> h]
             ELSE LET r == ListOfGen(field_type, h, vals.val)
                  IN  [err |-> r.err, heap |-> r.heap,
                       col |-> IF r.err = "none" THEN Container(field_type, r.val) ELSE NoCol]
        ELSE [err |-> vals.err, heap |-> h,
              col |-> IF vals.err = "none" THEN PlainList(vals.val) ELSE NoCol]

Min(a, b) == IF a < b THEN a ELSE b

\* _set_data_column giving every record the first of the values
RECURSIVE _set_data_column_first(_, _, _, _, _)
_set_data_column_first(h, lst, f, values, k) ==
    IF k = 0 THEN h
    ELSE SetAttr(_set_data_column_first(h, lst, f, values, k - 1), lst[k], f, values[1])

\* _set_data_column leaving out the last pair
RECURSIVE _set_data_column_short(_, _, _, _, _)
_set_data_column_short(h, lst, f, values, k) ==
    IF k <= 1 THEN h
    ELSE SetAttr(_set_data_column_short(h, lst, f, values, k - 1), lst[k - 1], f, values[k - 1])

\* DocArray._set_data_column: for doc, value in zip(self, values):
\* setattr(doc, field, value), over the first k pairs
RECURSIVE _set_data_column(_, _, _, _, _)
_set_data_column(h, lst, f, values, k) ==
    IF k = 0 THEN h
    ELSE SetAttr(_set_data_column(h, lst, f, values, k - 1), lst[k], f, values[k])

\* the values a caller assigns to a field: those of its declared type
FieldValues(f) ==
    CASE f = "title" -> Scalars
      [] f = "inner" -> {"n1", "n2"}
      [] f = "opt" -> {None, "n1"}
      [] OTHER -> Scalars

\* the column getter: C.<field>
get_column(f) ==
    /\ constructed
    /\ LET r == _get_data_column(docType, heap, data, f)
       IN  /\ heap' = r.heap
           /\ last' = ColumnCall("get_column", r.err, r.col, f)
    /\ UNCHANGED <<docType, constructed, data, gen, stores>>

\* the column setter: C.<field> = values
set_column(f, values) ==
    /\ constructed
    /\ heap' = _set_data_column(heap, data, f, values, Min(Len(data), Len(values)))
    /\ last' = ColumnCall("set_column", "none", None, f)
    /\ UNCHANGED <<docType, constructed, data, gen, stores>>

\* C.<field> = C.<field>
round_trip(f) ==
    /\ constructed
    /\ LET r == _get_data_column(docType, heap, data, f)
       IN  /\ heap' = IF r.err = "none"
                      THEN _set_data_column(r.heap, data, f, r.col.data,
                                            Min(Len(data), Len(r.col.data)))
                      ELSE r.heap
           /\ last' = ColumnCall("round_trip", r.err, None, f)
    /\ UNCHANGED <<docType, constructed, data, gen, stores>>

\* C.<field>.<nested field> = values: the column getter of a record field,
\* then the column setter of the container it returned
nested_write(f, g, values) ==
    /\ constructed
    /\ LET r == _get_data_column(docType, heap, data, f)
       IN  /\ r.err = "none" => r.col.kind = "DocArray"
           /\ heap' = IF r.err = "none"
                      THEN _set_data_column(r.heap, r.col.data, g, values,
                                            Min(Len(r.col.data), Len(values)))
                      ELSE r.heap
           /\ last' = ColumnCall("nested_write", r.err, r.col, f)
    /\ UNCHANGED <<docType, constructed, data, gen, stores>>

\* a container of records with a record field, filled and then written
\* through the column of that field
NestedInputs == {"d1", "d2", "m_doc"}

NextNested ==
    \/ \E given \in BOOLEAN, docs \in SeqsUpTo(NestedInputs, MaxDocs) : DocArrayInit(given, docs)
    \/ \E doc \in NestedInputs : append(doc)
    \/ \E docs \in SeqsUpTo(NestedInputs, MaxDocs) : extend(docs)
    \/ \E i \in 0..MaxLen, doc \in NestedInputs : insert(i, doc)
    \/ \E values \in SeqsUpTo(Scalars, MaxVals) : nested_write("inner", "val", values)

TensorTypes == {"NdArray", "TorchTensor"}

\* DocArrayStacked[t](docs, tensor_type=tensor_type): the columnar container
\* of the records of docs, in their order
DocArrayStacked(t, docs, tensor_type) ==
    [kind |-> "DocArrayStacked", type |-> t, data |-> docs, tensor_type |-> tensor_type]

\* stack building a stacked container of no particular record type
stack_unbound(tensor_type) ==
    /\ constructed
    /\ last' = Call("stack", "none", DocArrayStacked("AnyDoc", data, tensor_type))
    /\ UNCHANGED <<docType, constructed, data, heap, gen, stores>>

\* DocArray.stack
stack(tensor_type) ==
    /\ constructed
    /\ last' = Call("stack", "none", DocArrayStacked(docType, data, tensor_type))
    /\ UNCHANGED <<docType, constructed, data, heap, gen, stores>>

InitColumn ==
    /\ docType = "Doc"
    /\ constructed = FALSE
    /\ data = <<>>
    /\ heap = Heap0
    /\ last = Call("none", "none", None)
    /\ gen = NoGen
    /\ stores = Stores0

\* the container of this specification is built from records of its schema
\* or of another one
ColumnInputs == {"d1", "d2", "n1"}

NextColumn ==
    \/ \E given \in BOOLEAN, docs \in SeqsUpTo(ColumnInputs, MaxDocs) : DocArrayInit(given, docs)
    \/ \E f \in Fields(docType) : get_column(f)
    \/ \E f \in Fields(docType) : \E values \in SeqsUpTo(FieldValues(f), MaxVals) :
          set_column(f, values)
    \/ \E f \in Fields(docType) : round_trip(f)
    \/ \E tensor_type \in TensorTypes : stack(tensor_type)

SpecColumn == InitColumn /\ [][NextColumn]_vars

SpecNested == InitColumn /\ [][NextNested]_vars

----------------------------------------------------------------------------
\* The generator of _validate_docs and its consumer

\* _validate_docs validating the whole input when it is called
validate_docs_eager(docs) ==
    /\ gen.state = "none"
    /\ CanAlloc(heap, docs)
    /\ LET r == ListOfGen(docType, heap, docs)
       IN  /\ heap' = r.heap
           /\ gen' = [state |-> "suspended", docs |-> docs, pos |-> Len(r.val),
                      requests |-> 0,
                      validated |-> [k \in 1..Min(Len(docs), Len(r.val) + 1) |-> k],
                      yielded |-> r.val]
    /\ last' = Call("_validate_docs", "none", None)
    /\ UNCHANGED <<docType, constructed, data, stores>>

\* self._validate_docs(docs): the call creates the generator and runs none
\* of its body
validate_docs(docs) ==
    /\ gen.state = "none"
    /\ CanAlloc(heap, docs)
    /\ gen' = [state |-> "suspended", docs |-> docs, pos |-> 0, requests |-> 0,
               validated |-> <<>>, yielded |-> <<>>]
    /\ last' = Call("_validate_docs", "none", None)
    /\ UNCHANGED <<docType, constructed, data, heap, stores>>

\* next(generator): the body runs up to its next yield, to the error of
\* _validate_one_doc, or to the end of the input; a generator that raised or
\* returned is finished and only raises StopIteration
gen_next ==
    /\ gen.state # "none"
    /\ gen.requests < Len(gen.docs) + 2
    /\ IF gen.state # "suspended"
       THEN /\ gen' = [gen EXCEPT !.requests = @ + 1]
            /\ heap' = heap
            /\ last' = Call("next", "StopIteration", None)
       ELSE LET r == GenStep(docType, heap, gen.docs, gen.pos)
            IN  /\ heap' = r.heap
                /\ last' = Call("next", r.err, r.val)
                /\ gen' = IF r.err = "StopIteration"
                          THEN [gen EXCEPT !.requests = @ + 1, !.state = "exhausted"]
                          ELSE IF r.err # "none"
                          THEN [gen EXCEPT !.requests = @ + 1, !.state = "raised",
                                           !.pos = @ + 1,
                                           !.validated = Append(@, gen.pos + 1)]
                          ELSE [gen EXCEPT !.requests = @ + 1,
                                           !.pos = @ + 1,
                                           !.validated = Append(@, gen.pos + 1),
                                           !.yielded = Append(@, r.val)]
    /\ UNCHANGED <<docType, constructed, data, stores>>

NextGen ==
    \/ \E docs \in SeqsUpTo(AllInputs, MaxDocs) : validate_docs(docs)
    \/ gen_next

SpecGen == Init /\ [][NextGen]_vars

----------------------------------------------------------------------------
\* Properties of the container and its list primitives

Concrete == ~IsSubclass(docType, "AnyDoc")
Allocated(h, r) == r \in RecIds /\ h[r].type # "NULL"
\* r is a record the bound schema accepts
ValidRecord(r) ==
    /\ Allocated(heap, r)
    /\ Concrete => IsSubclass(heap[r].type, docType)

\* x is a record that did not exist before the step and is, after it, an
\* instance of class t built from the entries of mapping m
BuiltFrom(x, t, m) ==
    /\ x \in RecIds
    /\ heap[x].type = "NULL"
    /\ heap'[x].type = t
    /\ \A f \in FieldNames :
          DictEntries(m)[f] # ABSENT => heap'[x].attrs[f] = DictEntries(m)[f]

\* C1: in a container bound to a concrete record type, every stored element
\* is an instance of that type or of a subtype, whatever calls were made
C1_ElementsConform ==
    Concrete => \A k \in 1..Len(data) : Allocated(heap, data[k])
                                        /\ IsSubclass(heap[data[k]].type, docType)

C1_Witness ==
    /\ docType = "Doc"
    /\ last.err = "ValueError"
    /\ Len(data) >= 2
    /\ \E k \in 1..Len(data) : heap[data[k]].type = "SubDoc"
    /\ \E k \in 1..Len(data) : data[k] \in FreshIds

\* C2: an extend that raises leaves the store exactly as it was
C2_ExtendAllOrNothing ==
    [][(last'.op = "extend" /\ last'.err # "none") => data' = data]_vars

\* C3 as stated: bound to the unconstrained marker, every value, a mapping
\* included, is stored as the very input value
C3_AnyValueStoredAsIs ==
    [][docType = "AnyDoc" =>
        /\ last'.op = "append" =>
              \A v \in Inputs : append(v) => data' = Append(data, v)
        /\ last'.op = "insert" =>
              \A v \in Inputs : \A i \in Indexes :
                  insert(i, v) => \E k \in 0..Len(data) :
                      data' = SubSeq(data, 1, k) \o <<v>> \o SubSeq(data, k + 1, Len(data))
        /\ last'.op = "extend" =>
              \A docs \in Iterables : extend(docs) => data' = data \o docs
        /\ last'.op = "__init__" =>
              \A docs \in Iterables : DocArrayInit(TRUE, docs) => data' = docs]_vars

\* the value stored for input v when bound to the unconstrained marker: v
\* itself unless v is a mapping, then a new AnyDoc record built from it
StoredForAny(x, v) ==
    IF IsDict(v) THEN BuiltFrom(x, "AnyDoc", v) ELSE x = v

\* C3 amended: bound to the unconstrained marker, every non-mapping value is
\* accepted and stored as the very input value by the constructor, append,
\* extend and insert, and a mapping is converted into a new AnyDoc record
\* keyword-constructed from its entries
C3_NonMappingStoredAsIs ==
    [][docType = "AnyDoc" =>
        /\ last'.op = "append" =>
              \A v \in Inputs : append(v) =>
                  /\ last'.err = "none"
                  /\ Len(data') = Len(data) + 1
                  /\ StoredForAny(data'[Len(data')], v)
        /\ last'.op = "insert" =>
              \A v \in Inputs : \A i \in Indexes : insert(i, v) =>
                  /\ last'.err = "none"
                  /\ \E k \in 0..Len(data) :
                        /\ Len(data') = Len(data) + 1
                        /\ StoredForAny(data'[k + 1], v)
                        /\ \A j \in 1..Len(data) :
                              data'[IF j <= k THEN j ELSE j + 1] = data[j]
        /\ last'.op = "extend" =>
              \A docs \in Iterables : extend(docs) =>
                  /\ last'.err = "none"
                  /\ Len(data') = Len(data) + Len(docs)
                  /\ \A k \in 1..Len(docs) : StoredForAny(data'[Len(data) + k], docs[k])
        /\ last'.op = "__init__" =>
              \A docs \in Iterables : DocArrayInit(TRUE, docs) =>
                  /\ last'.err = "none"
                  /\ Len(data') = Len(docs)
                  /\ \A k \in 1..Len(docs) : StoredForAny(data'[k], docs[k])]_vars

C3_Witness ==
    /\ docType = "AnyDoc"
    /\ last.op = "extend"
    /\ last.err = "none"
    /\ \E k \in 1..Len(data) : data[k] = "str"
    /\ \E k \in 1..Len(data) : data[k] \in FreshIds /\ heap[data[k]].type = "AnyDoc"

\* C4: bound to a concrete record type, append and insert of a non-mapping
\* value that is no instance of it raise the validation error and leave the
\* store as it was; a mapping is keyword-constructed into a new record of the
\* bound type, or its construction fails and the store is left as it was
C4_RejectsForeignValues ==
    [][(Concrete /\ last'.op \in {"append", "insert"}) =>
        \A v \in Inputs :
            LET rejected == /\ last'.err = "ValueError"
                            /\ data' = data
                            /\ heap' = heap
                converted == \/ /\ last'.err = "none"
                                /\ Len(data') = Len(data) + 1
                                /\ \E k \in 1..Len(data') : BuiltFrom(data'[k], docType, v)
                             \/ /\ last'.err = "ValidationError"
                                /\ data' = data
                outcome == IF IsDict(v) THEN converted
                           ELSE (~IsInstance(heap, v, docType) => rejected)
            IN  /\ append(v) => outcome
                /\ \A i \in Indexes : insert(i, v) => outcome]_vars

C4_Witness ==
    /\ docType = "Doc"
    /\ last.op = "insert"
    /\ last.err = "ValueError"
    /\ Len(data) >= 1

\* C6: append of a valid record makes it the last element, lengthens the
\* store by exactly one and leaves the earlier elements where they were
C6_AppendAddsLast ==
    [][last'.op = "append" => \A r \in Inputs : (ValidRecord(r) /\ append(r)) =>
          /\ last'.err = "none"
          /\ Len(data') = Len(data) + 1
          /\ data'[Len(data')] = r
          /\ \A k \in 1..Len(data) : data'[k] = data[k]]_vars

C6_Witness ==
    /\ docType = "Doc"
    /\ last.op = "append"
    /\ last.err = "none"
    /\ Len(data) >= 2
    /\ data[Len(data)] = "d2"
    /\ data[1] # "d2"

\* C7: insert(i, x) of a valid record with 0 <= i <= len puts x at position
\* i, keeps the elements before i, shifts those from i on by one and
\* lengthens the store by exactly one
C7_InsertAtIndex ==
    [][last'.op = "insert" => \A x \in Inputs : \A i \in 0..Len(data) : (ValidRecord(x) /\ insert(i, x)) =>
          /\ last'.err = "none"
          /\ Len(data') = Len(data) + 1
          /\ data'[i + 1] = x
          /\ \A k \in 1..i : data'[k] = data[k]
          /\ \A k \in (i + 1)..Len(data) : data'[k + 1] = data[k]]_vars

\* insert(1, x) on [a, b] gave [a, x, b]
C7_Witness ==
    /\ last.op = "insert"
    /\ last.err = "none"
    /\ data = <<"d1", "d2", "d1">>

----------------------------------------------------------------------------
\* Properties of the column accessors

\* the fields whose declared type is a record class and no union
RecordFields == {f \in Fields(docType) :
                    ~is_union_type(FieldType(docType, f)) /\ IsRecordClass(FieldType(docType, f))}

\* C5: set_column with values of another length than the container raises
\* LengthMismatchError and sets the field on no record
C5_SetColumnChecksLength ==
    [][last'.op = "set_column" =>
        \A f \in Fields(docType) : \A values \in SeqsUpTo(FieldValues(f), MaxVals) :
            (Len(values) # Len(data) /\ set_column(f, values)) =>
                /\ last'.err = "LengthMismatchError"
                /\ heap' = heap]_vars

\* C8: get_column of a field declared as a record type returns a new
\* container bound to that record type, as long as the container, whose i-th
\* element is the field's value in the i-th record; the container itself and
\* its records are left as they were
C8_RecordColumnIsContainer ==
    [][last'.op = "get_column" =>
        \A f \in RecordFields : get_column(f) =>
            /\ last'.err = "none"
            /\ last'.ret.kind = "DocArray"
            /\ last'.ret.type = "Inner"
            /\ Len(last'.ret.data) = Len(data)
            /\ \A k \in 1..Len(data) : last'.ret.data[k] = heap[data[k]].attrs[f]
            /\ data' = data
            /\ heap' = heap]_vars

C8_Witness ==
    /\ last.op = "get_column"
    /\ last.field = "inner"
    /\ last.err = "none"
    /\ last.ret.kind = "DocArray"
    /\ Len(data) = 2
    /\ last.ret.data = <<"n2", "n1">>

\* C9: set_column(f, get_column(f)) leaves the container as it was: the same
\* records in the same order, every field of every record with its value
C9_RoundTrip ==
    [][last'.op = "round_trip" =>
        /\ last'.err = "none"
        /\ data' = data
        /\ heap' = heap]_vars

C9_Witness ==
    /\ last.op = "round_trip"
    /\ last.field = "inner"
    /\ Len(data) = 2
    /\ data[1] # data[2]
    /\ heap[data[1]].attrs["inner"] # heap[data[2]].attrs["inner"]
    /\ heap[data[1]].attrs["inner"] # Heap0[data[1]].attrs["inner"]

----------------------------------------------------------------------------
\* Properties of the generator of _validate_docs

\* C10: elements are validated one at a time in input order, only when the
\* consumer asks for the next record, each after all earlier ones were
\* validated and yielded, and none after the first failing one
C10_LazyInOrder ==
    [][/\ \A k \in 1..Len(gen'.validated) : gen'.validated[k] = k
       /\ Len(gen'.validated) <= gen'.requests
       /\ gen'.pos = Len(gen'.validated)
       /\ Len(gen'.yielded) = Len(gen'.validated) - (IF gen'.state = "raised" THEN 1 ELSE 0)
       /\ Len(gen'.validated) <= Len(gen.validated) + 1
       /\ gen.state = "raised" => /\ gen'.validated = gen.validated
                                  /\ gen'.pos = gen.pos
                                  /\ gen'.yielded = gen.yielded
                                  /\ heap' = heap]_vars

C10_Witness ==
    /\ gen.state = "raised"
    /\ Len(gen.docs) = 2
    /\ gen.validated = <<1>>
    /\ gen.requests = 3

----------------------------------------------------------------------------
\* Properties of removal, construction and reordering

\* how often v occurs in lst
Count(lst, v) == Cardinality({k \in 1..Len(lst) : lst[k] = v})

\* lst without its element at position k (from 1)
Without(lst, k) == [j \in 1..(Len(lst) - 1) |-> IF j < k THEN lst[j] ELSE lst[j + 1]]

\* C11: pop with an index out of range, on an empty container included,
\* raises IndexError and remove of an absent value raises the not-found
\* error (ValueError), both leaving the store as it was; a successful pop(i)
\* returns the element at i and removes that position only, a successful
\* remove(v) removes the first element equal to v only
C11_PopAndRemove ==
    [][last'.op \in {"pop", "remove"} =>
        /\ heap' = heap
        /\ \A i \in Indexes : pop(i) =>
              LET n == Len(data)
                  k == IF i < 0 THEN i + n ELSE i
              IN  IF k < 0 \/ k >= n
                  THEN last'.err = "IndexError" /\ data' = data
                  ELSE /\ last'.err = "none"
                       /\ last'.ret = data[k + 1]
                       /\ data' = Without(data, k + 1)
        /\ \A v \in Removables : remove(v) =>
              IF \A k \in 1..Len(data) : data[k] # v
              THEN last'.err = "ValueError" /\ data' = data
              ELSE /\ last'.err = "none"
                   /\ \E k \in 1..Len(data) :
                         /\ data[k] = v
                         /\ \A j \in 1..(k - 1) : data[j] # v
                         /\ data' = Without(data, k)]_vars

C11_Witness ==
    /\ constructed
    /\ last.op = "pop"
    /\ last.err = "IndexError"
    /\ data = <<>>

\* v is an input the bound schema accepts: a record of the schema, or a
\* mapping with every required field
ValidInput(v) ==
    IF IsDict(v)
    THEN Concrete => \A f \in {"title", "inner"} : DictEntries(v)[f] # ABSENT
    ELSE Concrete => IsInstance(heap, v, docType)

\* C12: construction from n valid inputs gives a container of length n
\* whose i-th element is the validated form of the i-th input: the record
\* itself, or the record built from the mapping; construction from no data
\* or from an empty iterable gives an empty container
C12_Construction ==
    [][last'.op = "__init__" =>
        \A given \in BOOLEAN : \A docs \in Iterables : DocArrayInit(given, docs) =>
            IF ~given \/ docs = <<>>
            THEN constructed' /\ data' = <<>> /\ last'.err = "none"
            ELSE (\A k \in 1..Len(docs) : ValidInput(docs[k])) =>
                    /\ constructed'
                    /\ last'.err = "none"
                    /\ Len(data') = Len(docs)
                    /\ \A k \in 1..Len(docs) :
                          IF IsDict(docs[k])
                          THEN BuiltFrom(data'[k], docType, docs[k])
                          ELSE data'[k] = docs[k]]_vars

C12_Witness ==
    /\ docType = "Doc"
    /\ constructed
    /\ last.op = "__init__"
    /\ Len(data) = 2
    /\ data[1] \in FreshIds
    /\ data[2] = "d2"

\* C14: reverse and sort only reorder: the store keeps its length and its
\* elements, each as often as before, and no record is touched; reverse
\* puts the element of position i at position len-1-i; a sort that succeeds
\* leaves the store in the order of the key
C14_ReorderOnly ==
    [][last'.op \in {"reverse", "sort"} =>
        /\ heap' = heap
        /\ Len(data') = Len(data)
        /\ \A v \in RecIds \cup RawVals : Count(data', v) = Count(data, v)
        /\ reverse => \A k \in 1..Len(data) : data'[k] = data[Len(data) + 1 - k]
        /\ (sort("title") /\ last'.err = "none") =>
              \A j, k \in 1..Len(data') :
                  j < k => Rank(heap[data'[j]].attrs["title"]) <= Rank(heap[data'[k]].attrs["title"])]_vars

C14_Witness ==
    /\ last.op = "sort"
    /\ last.err = "none"
    /\ data = <<"d1", "f1", "d2">>

----------------------------------------------------------------------------
\* Properties of stack and of the column accessors, continued

\* C13: stack, for every tensor kind, gives a columnar container bound to
\* the record type of the source and built from all its records in order
C13_StackKeepsSchema ==
    [][last'.op = "stack" =>
        \A tensor_type \in TensorTypes : stack(tensor_type) =>
            /\ last'.err = "none"
            /\ last'.ret.kind = "DocArrayStacked"
            /\ last'.ret.type = docType
            /\ last'.ret.tensor_type = tensor_type
            /\ Len(last'.ret.data) = Len(data)
            /\ \A k \in 1..Len(data) : last'.ret.data[k] = data[k]
            /\ data' = data
            /\ heap' = heap]_vars

C13_Witness ==
    /\ last.op = "stack"
    /\ last.ret.type = "Doc"
    /\ last.ret.tensor_type = "TorchTensor"
    /\ last.ret.data = <<"d2", "d1">>

\* C15: get_column of a field declared as a scalar or as a union, a union
\* holding a record type included, returns a plain list, as long as the
\* container, whose i-th entry is the field's value in the i-th record
C15_PlainListColumn ==
    [][last'.op = "get_column" =>
        \A f \in Fields(docType) \ RecordFields : get_column(f) =>
            /\ last'.err = "none"
            /\ last'.ret.kind = "list"
            /\ Len(last'.ret.data) = Len(data)
            /\ \A k \in 1..Len(data) : last'.ret.data[k] = heap[data[k]].attrs[f]
            /\ data' = data
            /\ heap' = heap]_vars

C15_Witness ==
    /\ last.op = "get_column"
    /\ last.field = "opt"
    /\ last.err = "none"
    /\ last.ret.kind = "list"
    /\ last.ret.data = <<None, "n1">>

\* everything but field f of the stored records is as it was
OnlyFieldChanged(f) ==
    /\ data' = data
    /\ \A r \in RecIds :
          /\ heap'[r].type = heap[r].type
          /\ \A g \in FieldNames \ {f} : heap'[r].attrs[g] = heap[r].attrs[g]
          /\ (\A k \in 1..Len(data) : data[k] # r) => heap'[r] = heap[r]

\* C16 as stated: set_column with as many values as records sets field f of
\* the i-th record to the i-th value for every i and changes nothing else
C16_EveryPositionSet ==
    [][last'.op = "set_column" =>
        \A f \in Fields(docType) : \A values \in SeqsUpTo(FieldValues(f), MaxVals) :
            (Len(values) = Len(data) /\ set_column(f, values)) =>
                /\ last'.err = "none"
                /\ \A i \in 1..Len(data) : heap'[data[i]].attrs[f] = values[i]
                /\ OnlyFieldChanged(f)]_vars

\* the last position at which the record of position i is stored
LastPosition(lst, i) ==
    CHOOSE j \in 1..Len(lst) : lst[j] = lst[i] /\ \A k \in (j + 1)..Len(lst) : lst[k] # lst[i]

\* C16 amended: set_column with as many values as records sets field f of
\* every stored record to the value of the last position at which that
\* record is stored, which is the i-th value for the i-th record when no
\* record is stored twice, and changes nothing else
C16_LastPositionSet ==
    [][last'.op = "set_column" =>
        \A f \in Fields(docType) : \A values \in SeqsUpTo(FieldValues(f), MaxVals) :
            (Len(values) = Len(data) /\ set_column(f, values)) =>
                /\ last'.err = "none"
                /\ \A i \in 1..Len(data) :
                      heap'[data[i]].attrs[f] = values[LastPosition(data, i)]
                /\ OnlyFieldChanged(f)]_vars

C16_Witness ==
    /\ last.op = "set_column"
    /\ last.field = "title"
    /\ data = <<"d1", "d2">>
    /\ heap["d1"].attrs["title"] = "b"
    /\ heap["d2"].attrs["title"] = "a"

----------------------------------------------------------------------------
\* Properties of record identity

\* every value of docs is a record the bound schema accepts
AllValidRecords(docs) == \A k \in 1..Len(docs) : ValidRecord(docs[k])

\* C17: a record handed to the constructor, append, extend or insert is
\* stored as that very object and no object is created; the container that
\* get_column returns for a record field holds the very field objects of the
\* parent's records, so that a field written through it is read back through
\* the parent
C17_NoSilentCopy ==
    [][/\ last'.op = "append" =>
              \A r \in Inputs : (ValidRecord(r) /\ append(r)) =>
                  data'[Len(data')] = r /\ heap' = heap
       /\ last'.op = "insert" =>
              \A r \in Inputs : \A i \in Indexes : (ValidRecord(r) /\ insert(i, r)) =>
                  /\ heap' = heap
                  /\ \E k \in 1..Len(data') : data'[k] = r /\ data' # data
       /\ last'.op = "extend" =>
              \A docs \in Iterables : (AllValidRecords(docs) /\ extend(docs)) =>
                  data' = data \o docs /\ heap' = heap
       /\ last'.op = "__init__" =>
              \A docs \in Iterables : (AllValidRecords(docs) /\ DocArrayInit(TRUE, docs)) =>
                  data' = docs /\ heap' = heap
       /\ last'.op = "nested_write" =>
              \A values \in SeqsUpTo(Scalars, MaxVals) : nested_write("inner", "val", values) =>
                  LET n == Min(Len(data), Len(values))
                      nested(k) == heap[data[k]].attrs["inner"]
                  IN  /\ last'.err = "none"
                      /\ Len(last'.ret.data) = Len(data)
                      /\ \A k \in 1..Len(data) : last'.ret.data[k] = nested(k)
                      /\ \A k \in 1..n :
                            (\A j \in (k + 1)..n : nested(j) # nested(k)) =>
                                heap'[heap'[data[k]].attrs["inner"]].attrs["val"] = values[k]]_vars

\* both nested records were written through the column of the parent
C17_Witness ==
    /\ last.op = "nested_write"
    /\ last.err = "none"
    /\ Len(data) >= 2
    /\ heap[heap[data[1]].attrs["inner"]].attrs["val"] = "b"
    /\ heap[heap[data[2]].attrs["inner"]].attrs["val"] = "a"
    /\ heap[data[1]].attrs["inner"] = "n1"

\* ---------------------------------------------------------------------------
\* Two containers of one class
\* ---------------------------------------------------------------------------

TwoInputs == {"d1", "d2"}

\* DocArray.__init__(data) of a second container of the same class
peer_init(given, docs) ==
    /\ stores.peerBound = "none"
    /\ CanAlloc(heap, docs)
    /\ LET r == IF given /\ Len(docs) > 0
                THEN ListOfGen(docType, heap, docs)
                ELSE Result("none", <<>>, heap)
           b == BoundAfterInit(given, docs, r.err)
       IN  /\ heap' = r.heap
           /\ stores' = IF r.err # "none" THEN stores
                        ELSE [stores EXCEPT !.peerBound = b,
                                            !.peer = IF b = "own" THEN r.val ELSE @]
           /\ last' = Call("peer.__init__", r.err, None)
    /\ UNCHANGED <<docType, constructed, data, gen>>

\* the first container is built with no data; the second with or without
NextTwo ==
    \/ DocArrayInit(FALSE, <<>>)
    \/ \E given \in BOOLEAN, docs \in SeqsUpTo(TwoInputs, MaxDocs) : peer_init(given, docs)
    \/ \E doc \in TwoInputs : append(doc)
    \/ \E docs \in SeqsUpTo(TwoInputs, MaxDocs) : extend(docs)
    \/ \E i \in 0..MaxLen, doc \in TwoInputs : insert(i, doc)
    \/ \E i \in Indexes : pop(i)
    \/ \E v \in TwoInputs : remove(v)
    \/ reverse
    \/ \E key \in SortKeys : sort(key)

SpecTwo == InitColumn /\ [][NextTwo]_vars

Mutators == {"append", "extend", "insert", "pop", "remove", "reverse", "sort"}

\* C18: a constructed container is bound to a list of its own, never to the
\* class-level default list and never to the list of another container, also
\* when both were constructed with no data; so a mutating call on one
\* container leaves the content of the other and the class-level list as
\* they were.
C18_SeparateStores ==
    [][ /\ constructed' => stores'.bound = "own"
        /\ stores'.peerBound # "class"
        /\ last'.op \in Mutators =>
              /\ PeerData' = PeerData
              /\ stores'.shared = stores.shared ]_vars

\* both containers were constructed with no data, then the first one was
\* appended to twice: the second is still empty
C18_Witness ==
    /\ constructed
    /\ stores.bound = "own"
    /\ stores.peerBound = "own"
    /\ PeerData = <<>>
    /\ stores.shared = <<>>
    /\ data = <<"d1", "d2">>
    /\ last.op = "append"

====
